---- MODULE Spec2Model ----
(***************************************************************************)
(* Model of the AG-UI backend server (ui/backend/server.py): the WebSocket *)
(* endpoint, its per-connection SessionState, handle_research_message, the *)
(* StreamingCallbackHandler, the SQLite transcript store and the report    *)
(* files.  One step of the model is the code a coroutine runs between two  *)
(* awaits; the value of pc names the await the coroutine executes next.    *)
(***************************************************************************)
EXTENDS Integers, Sequences, FiniteSets, TLC

\* ------------------------------------------------------------------ bounds
MaxFrames == 2       \* inbound frames one client sends on its connection
MaxInbox == 1        \* frames a connection buffers unread (flow control)
MaxTime == 0         \* the wall clock (in seconds) runs from 0 to MaxTime
MaxCallbacks == 3    \* engine callbacks that arrive during one invocation
MaxRows == 3         \* uuids (chat and message rows) the store specification draws
MaxStamp == 1        \* the wall clock of the store specification reads 0..MaxStamp
MaxTokens == 1001    \* tokens the one LLM run of the token specification streams
MaxOutput == 1002    \* characters of the longest tool output of the tool specification
MaxQuery == 52       \* characters of the longest query of the title specification

\* the connections of the model; Solo is the one a single-client run uses
Conns == {"c1", "c2"}
Solo == {"c1"}

\* ------------------------------------------------------------ value space
None == "None"
NoPath == << >>
ClientChatIds == {"a"}
Texts == {<<" ">>, <<" ", "q">>}
Reports == {"r1", "r2"}
Tools == {"t1", "t2"}
Units == {"A", "B"}  \* work units the engine runs concurrently

VARIABLES
    ws,               \* transport state of each connection
    inbox,            \* frames the client has sent and the server not yet read
    nsent,            \* number of frames the client has sent so far
    wire,             \* frames the server has written to the connection
    pc,               \* the await each connection's handler executes next
    data,             \* websocket_endpoint: the decoded frame
    exc,              \* the exception being handled by the handler, if any
    active_sessions,  \* the registry (its key set)
    session,          \* SessionState of each connection
    query,            \* handle_research_message: query
    report_path,      \* handle_research_message: report_path
    filepath,         \* save_report: filepath
    outstanding,      \* running handle_research_message calls per connection
    engine,           \* outcome of the engine call of the current invocation
    asstRows,         \* assistant rows appended by the current invocation
    chats,            \* table chats: id -> row
    messages,         \* table messages, in insertion (rowid) order
    files,            \* research_reports/: filename -> chunks written
    nextUuid,         \* uuid.uuid4() draws so far
    now,              \* datetime.now(), in seconds
    current_tool,     \* StreamingCallbackHandler.current_tool
    buffer,           \* StreamingCallbackHandler.buffer
    calls,            \* per work unit: its run and its callback coroutine
    arrived,          \* callbacks that arrived during the current invocation
    order,            \* for each callback frame on the wire, its callback's arrival number
    rest              \* the last REST request served and its response

netVars == <<ws, inbox, nsent, wire>>
hdlVars == <<pc, data, exc, active_sessions, session, query, report_path,
             filepath, outstanding, engine, asstRows>>
dbVars == <<chats, messages, files, nextUuid, now>>
cbVars == <<current_tool, buffer, calls, arrived, order>>
vars == <<netVars, hdlVars, dbVars, cbVars, rest>>

\* ------------------------------------------------------------ SessionState
SessionState ==
    [current_query |-> << >>, is_researching |-> FALSE, research_status |-> "",
     chat_id |-> None, notes |-> << >>, final_report |-> "",
     accumulated_tokens |-> << >>]

\* no strip: the text is taken as it is
NoStrip(s) == s

\* str.strip(): drop leading and trailing blanks
RECURSIVE LStrip(_)
LStrip(s) == IF s # << >> /\ Head(s) = " " THEN LStrip(Tail(s)) ELSE s

RECURSIVE RStrip(_)
RStrip(s) ==
    IF s # << >> /\ s[Len(s)] = " " THEN RStrip(SubSeq(s, 1, Len(s) - 1)) ELSE s

Strip(s) == RStrip(LStrip(s))

Uuid(n) == "u" \o ToString(n)

\* ------------------------------------------------------------------ frames
\* inbound: the raw text of a frame is invalid JSON, a JSON array or an object
SelectChat(id) ==
    [json |-> "object", type |-> "select_chat", sender |-> None,
     text |-> << >>, chat_id |-> id]
UserMessage(t, id) ==
    [json |-> "object", type |-> "message", sender |-> "user",
     text |-> t, chat_id |-> id]
OtherFrame ==
    [json |-> "object", type |-> "ping", sender |-> None,
     text |-> << >>, chat_id |-> None]
ArrayFrame ==
    [json |-> "array", type |-> None, sender |-> None,
     text |-> << >>, chat_id |-> None]
InvalidFrame ==
    [json |-> "invalid", type |-> None, sender |-> None,
     text |-> << >>, chat_id |-> None]
NoFrame ==
    [json |-> None, type |-> None, sender |-> None,
     text |-> << >>, chat_id |-> None]

Frames ==
    {SelectChat(id) : id \in ClientChatIds \cup {None}}
    \cup {UserMessage(t, id) : t \in Texts, id \in ClientChatIds \cup {None}}
    \cup {OtherFrame, ArrayFrame, InvalidFrame}

\* outbound
\* every state frame reports an idle session
StateFrameIdle(id, r, s) ==
    [type |-> "state", chat_id |-> id, is_researching |-> FALSE, research_status |-> s]

StateFrame(id, r, s) ==
    [type |-> "state", chat_id |-> id, is_researching |-> r, research_status |-> s]
StartedEvent(q) == [type |-> "event", event |-> "research_started", query |-> q]
CompletedEvent(r, p) ==
    [type |-> "event", event |-> "research_completed", report |-> r, report_path |-> p]
StreamStart == [type |-> "stream_start", sender |-> "assistant"]
StreamEnd == [type |-> "stream_end", sender |-> "assistant"]
Stream(mt, content) == [type |-> "stream", message_type |-> mt, content |-> content]
Token(t) == [type |-> "token", content |-> t]
Prompt ==
    [type |-> "message", sender |-> "assistant", text |-> "Please provide a research query."]

\* a work unit with no run and no callback in flight
NoCb == [kind |-> None, arg |-> ""]
NoCall == [phase |-> "idle", tool |-> None, cb |-> NoCb, seq |-> 0, todo |-> << >>]

\* no REST request served yet
NoRequest == [op |-> None, arg |-> << >>, status |-> 0, rows |-> << >>, text |-> << >>]

\* ------------------------------------------------------------------- Init
Init ==
    /\ ws = [c \in Conns |-> "none"]
    /\ inbox = [c \in Conns |-> << >>]
    /\ nsent = [c \in Conns |-> 0]
    /\ wire = [c \in Conns |-> << >>]
    /\ pc = [c \in Conns |-> "accept"]
    /\ data = [c \in Conns |-> NoFrame]
    /\ exc = [c \in Conns |-> None]
    /\ active_sessions = {}
    /\ session = [c \in Conns |-> SessionState]
    /\ query = [c \in Conns |-> << >>]
    /\ report_path = [c \in Conns |-> NoPath]
    /\ filepath = [c \in Conns |-> NoPath]
    /\ outstanding = [c \in Conns |-> 0]
    /\ engine = [c \in Conns |-> None]
    /\ asstRows = [c \in Conns |-> 0]
    /\ chats = << >>
    /\ messages = << >>
    /\ files = << >>
    /\ nextUuid = 1
    /\ now = 0
    /\ current_tool = [c \in Conns |-> None]
    /\ buffer = [c \in Conns |-> << >>]
    /\ calls = [c \in Conns |-> [u \in Units |-> NoCall]]
    /\ arrived = [c \in Conns |-> 0]
    /\ order = [c \in Conns |-> << >>]
    /\ rest = NoRequest

\* ------------------------------------------------------- transcript store
TitleMax == 50

\* the title is cut at 50 characters and no marker is appended
TitleCut(q) ==
    IF Len(q) > TitleMax THEN SubSeq(q, 1, TitleMax) ELSE q

\* handle_research_message: the title of an auto-created chat
Title(q) ==
    IF Len(q) > TitleMax THEN SubSeq(q, 1, TitleMax) \o <<".", ".", ".">> ELSE q

\* save_chat: INSERT INTO chats
save_chat(ch, id, title, t) ==
    ch @@ (id :> [title |-> title, created_at |-> t, updated_at |-> t])

\* save_message: INSERT INTO messages (the foreign key is declared, and
\* sqlite3.connect leaves foreign-key enforcement off)
save_message(ms, mid, id, role, content, t, path) ==
    Append(ms, [id |-> mid, chat_id |-> id, role |-> role, content |-> content,
                timestamp |-> t, report_path |-> path])

\* save_message: UPDATE chats SET updated_at
touch_chat(ch, id, t) ==
    [k \in DOMAIN ch |-> IF k = id THEN [ch[k] EXCEPT !.updated_at = t] ELSE ch[k]]

\* ------------------------------------------------------- exception routing
\* websocket_endpoint, lines 478-486: an exception leaves the while loop.
\* WebSocketDisconnect is printed; anything else is printed and followed by
\* await websocket.close(); the finally clause removes the session.
Raise(c, e) ==
    /\ exc' = [exc EXCEPT ![c] = e]
    /\ IF e = "WebSocketDisconnect"
         THEN /\ pc' = [pc EXCEPT ![c] = "done"]
              /\ active_sessions' = active_sessions \ {c}
         ELSE /\ pc' = [pc EXCEPT ![c] = "ws_close"]
              /\ UNCHANGED active_sessions

\* websocket.send_json on an open connection
Sent(c, f) == wire' = [wire EXCEPT ![c] = Append(@, f)]

\* ------------------------------------------------------------ environment
Accept(c) ==
    /\ pc[c] = "accept"
    /\ ws' = [ws EXCEPT ![c] = "open"]
    /\ session' = [session EXCEPT ![c] = SessionState]
    /\ active_sessions' = active_sessions \cup {c}
    /\ pc' = [pc EXCEPT ![c] = "recv"]
    /\ UNCHANGED <<inbox, nsent, wire, data, exc, query, report_path,
                   filepath, outstanding, engine, asstRows, dbVars, cbVars>>
    /\ UNCHANGED rest

ClientSend(c) ==
    /\ ws[c] = "open"
    /\ nsent[c] < MaxFrames
    /\ Len(inbox[c]) < MaxInbox
    /\ \E f \in Frames : inbox' = [inbox EXCEPT ![c] = Append(@, f)]
    /\ nsent' = [nsent EXCEPT ![c] = @ + 1]
    /\ UNCHANGED <<ws, wire, hdlVars, dbVars, cbVars>>
    /\ UNCHANGED rest

Disconnect(c) ==
    /\ ws[c] = "open"
    /\ ws' = [ws EXCEPT ![c] = "peer_closed"]
    /\ UNCHANGED <<inbox, nsent, wire, hdlVars, dbVars, cbVars>>
    /\ UNCHANGED rest

\* datetime.now(): the values a read of the clock can return
Clock == now..MaxTime

\* ------------------------------------------------------ websocket_endpoint
\* line 444 is reached when the previous iteration of the loop has ended:
\* the handler reads a frame while research runs
AtReceiveWhileResearching(c) == pc[c] \in {"recv", "h_engine"}

\* line 444: the handler awaits the next frame
AtReceive(c) == pc[c] = "recv"

\* receive_json on a connection the client has left
ReceiveDisconnect(c) ==
    /\ AtReceive(c)
    /\ inbox[c] = << >>
    /\ ws[c] = "peer_closed"
    /\ Raise(c, "WebSocketDisconnect")
    /\ UNCHANGED <<netVars, data, session, query, report_path, filepath, outstanding,
                   engine, asstRows, dbVars, cbVars>>
    /\ UNCHANGED rest

\* receive_json raises JSONDecodeError, or data.get raises AttributeError
ReceiveMalformed(c) ==
    /\ AtReceive(c)
    /\ inbox[c] # << >>
    /\ Head(inbox[c]).json # "object"
    /\ inbox' = [inbox EXCEPT ![c] = Tail(@)]
    /\ Raise(c, IF Head(inbox[c]).json = "invalid"
                  THEN "JSONDecodeError" ELSE "AttributeError")
    /\ UNCHANGED <<ws, nsent, wire, data, session, query, report_path,
                   filepath, outstanding, engine, asstRows, dbVars, cbVars>>
    /\ UNCHANGED rest

\* a select_chat that starts a fresh SessionState for the chosen chat
ReceiveSelectChatFresh(c) ==
    /\ AtReceive(c)
    /\ inbox[c] # << >>
    /\ LET f == Head(inbox[c]) IN
         /\ f.json = "object"
         /\ f.type = "select_chat"
         /\ data' = [data EXCEPT ![c] = f]
         /\ IF f.chat_id # None
              THEN /\ session' = [session EXCEPT ![c] =
                                    [SessionState EXCEPT !.chat_id = f.chat_id]]
                   /\ pc' = [pc EXCEPT ![c] = "sel_state"]
              ELSE UNCHANGED <<session, pc>>
    /\ inbox' = [inbox EXCEPT ![c] = Tail(@)]
    /\ UNCHANGED <<ws, nsent, wire, exc, active_sessions, query, report_path,
                   filepath, outstanding, engine, asstRows, dbVars, cbVars>>
    /\ UNCHANGED rest

\* lines 446-450
ReceiveSelectChat(c) ==
    /\ AtReceive(c)
    /\ inbox[c] # << >>
    /\ LET f == Head(inbox[c]) IN
         /\ f.json = "object"
         /\ f.type = "select_chat"
         /\ data' = [data EXCEPT ![c] = f]
         /\ IF f.chat_id # None
              THEN /\ session' = [session EXCEPT ![c].chat_id = f.chat_id]
                   /\ pc' = [pc EXCEPT ![c] = "sel_state"]
              ELSE UNCHANGED <<session, pc>>
    /\ inbox' = [inbox EXCEPT ![c] = Tail(@)]
    /\ UNCHANGED <<ws, nsent, wire, exc, active_sessions, query, report_path,
                   filepath, outstanding, engine, asstRows, dbVars, cbVars>>
    /\ UNCHANGED rest

\* lines 452-459
SendSelectState(c) ==
    /\ pc[c] = "sel_state"
    /\ IF ws[c] = "open"
         THEN /\ Sent(c, StateFrame(data[c].chat_id, FALSE, ""))
              /\ pc' = [pc EXCEPT ![c] = "recv"]
              /\ UNCHANGED <<exc, active_sessions>>
         ELSE /\ Raise(c, "WebSocketDisconnect")
              /\ UNCHANGED wire
    /\ UNCHANGED <<ws, inbox, nsent, data, session, query, report_path,
                   filepath, outstanding, engine, asstRows, dbVars, cbVars>>
    /\ UNCHANGED rest

\* a frame that matches neither branch of lines 446 and 461
ReceiveOther(c) ==
    /\ AtReceive(c)
    /\ inbox[c] # << >>
    /\ LET f == Head(inbox[c]) IN
         /\ f.json = "object"
         /\ f.type # "select_chat"
         /\ ~(f.type = "message" /\ f.sender = "user")
         /\ data' = [data EXCEPT ![c] = f]
    /\ inbox' = [inbox EXCEPT ![c] = Tail(@)]
    /\ UNCHANGED <<ws, nsent, wire, pc, exc, active_sessions, session, query,
                   report_path, filepath, outstanding, engine, asstRows, dbVars, cbVars>>
    /\ UNCHANGED rest

\* lines 461-468 with an empty query
ReceiveEmptyMessage(c) ==
    /\ AtReceive(c)
    /\ inbox[c] # << >>
    /\ LET f == Head(inbox[c]) IN
         /\ f.json = "object"
         /\ f.type = "message" /\ f.sender = "user"
         /\ Strip(f.text) = << >>
         /\ data' = [data EXCEPT ![c] = f]
         /\ query' = [query EXCEPT ![c] = Strip(f.text)]
         /\ session' = IF f.chat_id # None
                         THEN [session EXCEPT ![c].chat_id = f.chat_id]
                         ELSE session
    /\ inbox' = [inbox EXCEPT ![c] = Tail(@)]
    /\ pc' = [pc EXCEPT ![c] = "prompt"]
    /\ UNCHANGED <<ws, nsent, wire, exc, active_sessions, report_path,
                   filepath, outstanding, engine, asstRows, dbVars, cbVars>>
    /\ UNCHANGED rest

\* lines 469-473
SendPrompt(c) ==
    /\ pc[c] = "prompt"
    /\ IF ws[c] = "open"
         THEN /\ Sent(c, Prompt)
              /\ pc' = [pc EXCEPT ![c] = "recv"]
              /\ UNCHANGED <<exc, active_sessions>>
         ELSE /\ Raise(c, "WebSocketDisconnect")
              /\ UNCHANGED wire
    /\ UNCHANGED <<ws, inbox, nsent, data, session, query, report_path,
                   filepath, outstanding, engine, asstRows, dbVars, cbVars>>
    /\ UNCHANGED rest

\* the session is removed after websocket.close() instead of in a finally
\* clause: a close that raises skips the removal
WsCloseThenCleanup(c) ==
    /\ pc[c] = "ws_close"
    /\ \E raised \in BOOLEAN :
         /\ raised => ws[c] # "open"
         /\ exc' = [exc EXCEPT ![c] = IF raised THEN "RuntimeError" ELSE @]
         /\ active_sessions' = IF raised THEN active_sessions
                                ELSE active_sessions \ {c}
    /\ ws' = [ws EXCEPT ![c] = IF @ = "open" THEN "server_closed" ELSE @]
    /\ pc' = [pc EXCEPT ![c] = "done"]
    /\ UNCHANGED <<inbox, nsent, wire, data, session, query, report_path,
                   filepath, outstanding, engine, asstRows, dbVars, cbVars>>
    /\ UNCHANGED rest

\* lines 480-486: await websocket.close(), which returns or, on a connection
\* the client has left, can raise; then the finally clause
WsClose(c) ==
    /\ pc[c] = "ws_close"
    /\ \E raised \in BOOLEAN :
         /\ raised => ws[c] # "open"
         /\ exc' = [exc EXCEPT ![c] = IF raised THEN "RuntimeError" ELSE @]
    /\ ws' = [ws EXCEPT ![c] = IF @ = "open" THEN "server_closed" ELSE @]
    /\ active_sessions' = active_sessions \ {c}
    /\ pc' = [pc EXCEPT ![c] = "done"]
    /\ UNCHANGED <<inbox, nsent, wire, data, session, query, report_path,
                   filepath, outstanding, engine, asstRows, dbVars, cbVars>>
    /\ UNCHANGED rest

\* ------------------------------------------------- handle_research_message
\* an except clause that leaves is_researching as it is
ExceptKeepsFlag(c, e) ==
    /\ exc' = [exc EXCEPT ![c] = e]
    /\ session' = [session EXCEPT ![c].research_status = "Error: " \o e]
    /\ pc' = [pc EXCEPT ![c] = "x_err"]

\* no except clause: the exception leaves handle_research_message
ExceptPropagates(c, e) ==
    /\ exc' = [exc EXCEPT ![c] = e]
    /\ session' = session
    /\ pc' = [pc EXCEPT ![c] = "ws_close"]

\* the except clause, lines 381-383
Except(c, e) ==
    /\ exc' = [exc EXCEPT ![c] = e]
    /\ session' = [session EXCEPT ![c].is_researching = FALSE,
                                  ![c].research_status = "Error: " \o e]
    /\ pc' = [pc EXCEPT ![c] = "x_err"]

\* a send_json inside the try block
TrySend(c, f, next) ==
    IF ws[c] = "open"
      THEN /\ Sent(c, f)
           /\ pc' = [pc EXCEPT ![c] = next]
           /\ UNCHANGED <<exc, session>>
      ELSE /\ Except(c, "WebSocketDisconnect")
           /\ UNCHANGED wire

\* a send_json outside the try block
PlainSend(c, f, next) ==
    IF ws[c] = "open"
      THEN /\ Sent(c, f)
           /\ pc' = [pc EXCEPT ![c] = next]
           /\ UNCHANGED <<exc, active_sessions, outstanding>>
      ELSE /\ Raise(c, "WebSocketDisconnect")
           /\ outstanding' = [outstanding EXCEPT ![c] = @ - 1]
           /\ UNCHANGED wire

\* every query opens a chat of its own
AlwaysNewChat(id) == TRUE

\* line 290: not session.chat_id
NoChatBound(id) == id = None

\* lines 461-466 and 476, then handle_research_message lines 284-296
ReceiveQuery(c) ==
    /\ AtReceive(c)
    /\ inbox[c] # << >>
    /\ LET f == Head(inbox[c])
           q == Strip(f.text)
           bound == IF f.chat_id # None THEN f.chat_id ELSE session[c].chat_id
           fresh == NoChatBound(bound)
           id == IF fresh THEN Uuid(nextUuid) ELSE bound
           mid == IF fresh THEN nextUuid + 1 ELSE nextUuid
       IN
         /\ f.json = "object"
         /\ f.type = "message" /\ f.sender = "user"
         /\ q # << >>
         /\ data' = [data EXCEPT ![c] = f]
         /\ query' = [query EXCEPT ![c] = q]
         /\ session' = [session EXCEPT ![c].current_query = q,
                                       ![c].is_researching = TRUE,
                                       ![c].research_status = "Starting research...",
                                       ![c].chat_id = id]
         /\ engine' = [engine EXCEPT ![c] = None]
         /\ asstRows' = [asstRows EXCEPT ![c] = 0]
         /\ report_path' = [report_path EXCEPT ![c] = NoPath]
         /\ \E fault \in {"none", "save_chat", "save_message"}, t1 \in Clock :
            \E t2 \in t1..MaxTime :
            LET ch1 == IF fresh THEN save_chat(chats, id, Title(q), t1) ELSE chats IN
              /\ fresh \/ t1 = now
              /\ now' = IF fault = "save_chat" THEN t1 ELSE t2
              /\ fault = "save_chat" => t2 = t1
              /\ CASE fault = "none" ->
                     /\ chats' = touch_chat(ch1, id, t2)
                     /\ messages' = save_message(messages, Uuid(mid), id, "user", q, t2, NoPath)
                     /\ nextUuid' = mid + 1
                     /\ pc' = [pc EXCEPT ![c] = "h_state"]
                     /\ outstanding' = [outstanding EXCEPT ![c] = @ + 1]
                     /\ exc' = [exc EXCEPT ![c] = None]
                     /\ UNCHANGED active_sessions
                [] fault = "save_chat" ->
                     /\ fresh
                     /\ nextUuid' = nextUuid + 1
                     /\ Raise(c, "OperationalError")
                     /\ UNCHANGED <<chats, messages, outstanding>>
                [] fault = "save_message" ->
                     /\ chats' = ch1
                     /\ nextUuid' = mid + 1
                     /\ Raise(c, "OperationalError")
                     /\ UNCHANGED <<messages, outstanding>>
    /\ inbox' = [inbox EXCEPT ![c] = Tail(@)]
    /\ UNCHANGED <<ws, nsent, wire, filepath, files, cbVars>>
    /\ UNCHANGED rest

\* lines 299-306
SendResearchState(c) ==
    /\ pc[c] = "h_state"
    /\ PlainSend(c, StateFrame(session[c].chat_id, TRUE, "Starting research..."),
                 "h_started")
    /\ UNCHANGED <<ws, inbox, nsent, data, session, query, report_path,
                   filepath, engine, asstRows, dbVars, cbVars>>
    /\ UNCHANGED rest

\* lines 309-316: research_started, then the callback handler is created
SendResearchStarted(c) ==
    /\ pc[c] = "h_started"
    /\ PlainSend(c, StartedEvent(query[c]), "h_stream_start")
    /\ IF ws[c] = "open"
         THEN /\ current_tool' = [current_tool EXCEPT ![c] = None]
              /\ buffer' = [buffer EXCEPT ![c] = << >>]
         ELSE UNCHANGED <<current_tool, buffer>>
    /\ UNCHANGED <<ws, inbox, nsent, data, session, query, report_path,
                   filepath, engine, asstRows, dbVars, calls, arrived, order>>
    /\ UNCHANGED rest

\* lines 319-322
SendStreamStart(c) ==
    /\ pc[c] = "h_stream_start"
    /\ PlainSend(c, StreamStart, "h_header")
    /\ UNCHANGED <<ws, inbox, nsent, data, session, query, report_path,
                   filepath, engine, asstRows, dbVars, cbVars>>
    /\ UNCHANGED rest

\* line 326
SendHeader(c) ==
    /\ pc[c] = "h_header"
    /\ TrySend(c, Stream("header", <<"Research Query">> \o query[c]), "h_info")
    /\ UNCHANGED <<ws, inbox, nsent, data, active_sessions, query, report_path,
                   filepath, outstanding, engine, asstRows, dbVars, cbVars>>
    /\ UNCHANGED rest

\* lines 327-334: the info message, then the engine is invoked
SendInfo(c) ==
    /\ pc[c] = "h_info"
    /\ TrySend(c, Stream("info", <<"Starting deep research process...">>), "h_engine")
    /\ IF ws[c] = "open"
         THEN /\ arrived' = [arrived EXCEPT ![c] = 0]
              /\ order' = [order EXCEPT ![c] = << >>]
         ELSE UNCHANGED <<arrived, order>>
    /\ UNCHANGED <<ws, inbox, nsent, data, active_sessions, query, report_path,
                   filepath, outstanding, engine, asstRows, dbVars,
                   current_tool, buffer, calls>>
    /\ UNCHANGED rest

\* ------------------------------------------------------------- the engine
\* lines 331-344, then save_report lines 267-269: the engine returns a result
EngineReturn(c) ==
    /\ pc[c] = "h_engine"
    /\ \A u \in Units : calls[c][u].cb.kind = None
    /\ \E r \in Reports :
         session' = [session EXCEPT ![c].final_report = r,
                                    ![c].notes = << >>,
                                    ![c].is_researching = FALSE,
                                    ![c].research_status = "Research complete!"]
    /\ engine' = [engine EXCEPT ![c] = "returned"]
    /\ calls' = [calls EXCEPT ![c] = [u \in Units |-> NoCall]]
    /\ \E t \in Clock :
         /\ now' = t
         /\ filepath' = [filepath EXCEPT ![c] = <<session[c].chat_id, t>>]
    /\ pc' = [pc EXCEPT ![c] = "sr_open"]
    /\ UNCHANGED <<netVars, data, exc, active_sessions, query, report_path,
                   outstanding, asstRows, chats, messages, files, nextUuid,
                   current_tool, buffer, arrived, order>>
    /\ UNCHANGED rest

\* line 331 raises
EngineRaise(c) ==
    /\ pc[c] = "h_engine"
    /\ \A u \in Units : calls[c][u].cb.kind = None
    /\ engine' = [engine EXCEPT ![c] = "raised"]
    /\ calls' = [calls EXCEPT ![c] = [u \in Units |-> NoCall]]
    /\ Except(c, "EngineError")
    /\ UNCHANGED <<netVars, data, active_sessions, query, report_path,
                   filepath, outstanding, asstRows, dbVars,
                   current_tool, buffer, arrived, order>>
    /\ UNCHANGED rest

\* ------------------------------------------------ StreamingCallbackHandler
TruncateAt == 1000

\* the cut is taken from 1000 characters on, not from 1001
TruncateFrom(output) ==
    IF Len(output) >= TruncateAt
      THEN SubSeq(output, 1, TruncateAt) \o <<"\n... (truncated)">>
      ELSE output

\* on_tool_end, lines 170-171
Truncate(output) ==
    IF Len(output) > TruncateAt
      THEN SubSeq(output, 1, TruncateAt) \o <<"\n... (truncated)">>
      ELSE output

\* the callbacks a work unit can deliver next: a run starts, goes on or ends
Callbacks(phase) ==
    CASE phase = "idle" ->
           {[kind |-> "on_llm_start", arg |-> "m"]}
           \cup {[kind |-> "on_tool_start", arg |-> t] : t \in Tools}
           \cup {[kind |-> "on_agent_action", arg |-> i] : i \in {"", "in"}}
           \cup {[kind |-> "on_agent_finish", arg |-> ""]}
           \cup {[kind |-> "on_chain_start", arg |-> n] : n \in {"RunnableSequence", "X"}}
           \cup {[kind |-> "on_chain_end", arg |-> ""]}
      [] phase = "llm" ->
           {[kind |-> "on_llm_new_token", arg |-> "tok"],
            [kind |-> "on_llm_end", arg |-> ""]}
      [] phase = "tool" ->
           {[kind |-> "on_tool_end", arg |-> <<"o", "u", "t">>],
            [kind |-> "on_tool_error", arg |-> <<"e", "r", "r">>]}

\* the run a work unit is in after it has delivered a callback
PhaseAfter(phase, kind) ==
    CASE kind = "on_llm_start" -> "llm"
      [] kind = "on_tool_start" -> "tool"
      [] kind \in {"on_llm_end", "on_tool_end", "on_tool_error"} -> "idle"
      [] OTHER -> phase

\* lines 143-197: the frames a callback sends, in order; ct is
\* self.current_tool when the callback starts to run
CallbackFrames(kind, arg, ct) ==
    CASE kind = "on_llm_start" -> <<Stream("model_start", <<arg, " thinking...">>)>>
      [] kind = "on_llm_new_token" -> <<Token(arg)>>
      [] kind = "on_llm_end" -> <<Stream("model_end", <<"\n">>)>>
      [] kind = "on_tool_start" ->
           <<Stream("tool_start", <<"Tool Call: ", arg>>),
             Stream("tool_input", <<"json">>)>>
      [] kind = "on_tool_end" ->
           <<Stream("tool_output_header", <<"Tool Output ", ct>>),
             Stream("tool_output", <<"fence\n">> \o Truncate(arg) \o <<"\nfence\n">>)>>
      [] kind = "on_tool_error" -> <<Stream("tool_error", <<"Tool Error ", ct>> \o arg)>>
      [] kind = "on_agent_action" ->
           <<Stream("agent_action", <<"Agent Action: ", "t1">>)>>
           \o (IF arg # "" THEN <<Stream("agent_input", <<"Input: ", arg>>)>> ELSE << >>)
      [] kind = "on_agent_finish" -> <<Stream("agent_finish", <<"Agent completed research">>)>>
      [] kind = "on_chain_start" ->
           IF arg # "RunnableSequence"
             THEN <<Stream("chain_start", <<arg, " starting...">>)>>
             ELSE << >>
      [] kind = "on_chain_end" -> << >>

\* the code of a callback that runs after its last send
Epilogue(c, kind, arg) ==
    /\ current_tool' = [current_tool EXCEPT ![c] =
                          IF kind = "on_tool_end" THEN None ELSE @]
    /\ buffer' = [buffer EXCEPT ![c] =
                    CASE kind = "on_llm_new_token" -> Append(@, arg)
                      [] kind = "on_llm_end" -> << >>
                      [] OTHER -> @]

\* the engine awaits the callback cb of work unit u: it runs up to its first
\* send, which writes the frame, and is suspended there
Deliver(c, u, cb) ==
    LET ct == IF cb.kind = "on_tool_start" THEN cb.arg ELSE current_tool[c]
        fs == CallbackFrames(cb.kind, cb.arg, ct)
        ph == PhaseAfter(calls[c][u].phase, cb.kind)
        tl == IF cb.kind = "on_tool_start" THEN cb.arg ELSE calls[c][u].tool
    IN
      /\ arrived' = [arrived EXCEPT ![c] = @ + 1]
      /\ IF fs = << >>
           THEN /\ calls' = [calls EXCEPT ![c][u].phase = ph]
                /\ Epilogue(c, cb.kind, cb.arg)
                /\ UNCHANGED <<wire, order>>
           ELSE IF ws[c] = "open"
             THEN /\ Sent(c, Head(fs))
                  /\ order' = [order EXCEPT ![c] = Append(@, arrived[c] + 1)]
                  /\ calls' = [calls EXCEPT ![c][u] =
                                 [phase |-> ph, tool |-> tl, cb |-> cb,
                                  seq |-> arrived[c] + 1, todo |-> Tail(fs)]]
                  /\ current_tool' = [current_tool EXCEPT ![c] = ct]
                  /\ UNCHANGED buffer
             ELSE /\ calls' = [calls EXCEPT ![c][u].phase = ph,
                                            ![c][u].tool = tl]
                  /\ current_tool' = [current_tool EXCEPT ![c] = ct]
                  /\ UNCHANGED <<wire, order, buffer>>

\* a callback of the engine arrives while the engine call is awaited
CallbackArrive(c, u) ==
    /\ pc[c] = "h_engine"
    /\ calls[c][u].cb.kind = None
    /\ arrived[c] < MaxCallbacks
    /\ \E cb \in Callbacks(calls[c][u].phase) : Deliver(c, u, cb)
    /\ UNCHANGED <<ws, inbox, nsent, hdlVars, dbVars>>
    /\ UNCHANGED rest

\* a suspended callback resumes: it writes its next frame, or it has sent
\* all of them and ends
CallbackResume(c, u) ==
    /\ calls[c][u].cb.kind # None
    /\ LET r == calls[c][u] IN
         IF r.todo = << >>
           THEN /\ Epilogue(c, r.cb.kind, r.cb.arg)
                /\ calls' = [calls EXCEPT ![c][u].cb = NoCb, ![c][u].seq = 0]
                /\ UNCHANGED <<wire, order>>
           ELSE IF ws[c] = "open"
             THEN /\ Sent(c, Head(r.todo))
                  /\ order' = [order EXCEPT ![c] = Append(@, r.seq)]
                  /\ calls' = [calls EXCEPT ![c][u].todo = Tail(r.todo)]
                  /\ UNCHANGED <<current_tool, buffer>>
             ELSE /\ calls' = [calls EXCEPT ![c][u].cb = NoCb, ![c][u].seq = 0,
                                            ![c][u].todo = << >>]
                  /\ UNCHANGED <<wire, order, current_tool, buffer>>
    /\ UNCHANGED <<ws, inbox, nsent, arrived, hdlVars, dbVars>>
    /\ UNCHANGED rest

\* ------------------------------------------------------------- save_report
\* the text each f.write of lines 272-277 appends
Chunk(c, i, t) ==
    CASE i = 1 -> <<"# Research Report">>
      [] i = 2 -> <<"**Query**: ">> \o query[c]
      [] i = 3 -> <<"**Date**: ", ToString(t)>>
      [] i = 4 -> <<"**Chat ID**: ", session[c].chat_id>>
      [] i = 5 -> <<"---">>
      [] i = 6 -> <<session[c].final_report>>

NChunks == 6

\* line 271: aiofiles.open(filepath, "w") creates or truncates the file
OpenReport(c) ==
    /\ pc[c] = "sr_open"
    /\ \E ok \in BOOLEAN :
         IF ok
           THEN /\ files' = [k \in DOMAIN files \cup {filepath[c]} |-> << >>] @@ files
                /\ pc' = [pc EXCEPT ![c] = "sr_write1"]
                /\ UNCHANGED <<exc, session>>
           ELSE /\ Except(c, "OSError")
                /\ UNCHANGED files
    /\ UNCHANGED <<netVars, data, active_sessions, query, report_path, filepath,
                   outstanding, engine, asstRows, chats, messages, nextUuid,
                   now, cbVars>>
    /\ UNCHANGED rest

WritePc == <<"sr_write1", "sr_write2", "sr_write3", "sr_write4", "sr_write5",
             "sr_write6", "sr_close">>

\* lines 272-277: one f.write
WriteReport(c) ==
    /\ \E i \in 1..NChunks :
         /\ pc[c] = WritePc[i]
         /\ \E ok \in BOOLEAN, t \in Clock :
              /\ i = 3 \/ t = now
              /\ now' = t
              /\ IF ok
                   THEN /\ files' = [files EXCEPT ![filepath[c]] = @ \o Chunk(c, i, t)]
                        /\ pc' = [pc EXCEPT ![c] = WritePc[i + 1]]
                        /\ UNCHANGED <<exc, session>>
                   ELSE /\ Except(c, "OSError")
                        /\ UNCHANGED files
    /\ UNCHANGED <<netVars, data, active_sessions, query, report_path, filepath,
                   outstanding, engine, asstRows, chats, messages, nextUuid,
                   cbVars>>
    /\ UNCHANGED rest

\* the path save_report returns for a file name
ReportsDir == "research_reports"
Path(fn) == <<ReportsDir>> \o fn

\* lines 278-279 and 347: the file is closed and the path returned
CloseReport(c) ==
    /\ pc[c] = "sr_close"
    /\ report_path' = [report_path EXCEPT ![c] = Path(filepath[c])]
    /\ pc' = [pc EXCEPT ![c] = "h_report_header"]
    /\ UNCHANGED <<netVars, data, exc, active_sessions, session, query, filepath,
                   outstanding, engine, asstRows, dbVars, cbVars>>
    /\ UNCHANGED rest

\* get_report, lines 489-495
NotFound == <<"404">>
get_report(filename) ==
    IF filename \in DOMAIN files THEN files[filename] ELSE NotFound

\* ---------------------------------- handle_research_message, after the engine
\* line 350
SendReportHeader(c) ==
    /\ pc[c] = "h_report_header"
    /\ TrySend(c, Stream("report_header", <<"Final Research Report">>),
               "h_report_content")
    /\ UNCHANGED <<ws, inbox, nsent, data, active_sessions, query, report_path,
                   filepath, outstanding, engine, asstRows, dbVars, cbVars>>
    /\ UNCHANGED rest

\* lines 351-353
SendReportContent(c) ==
    /\ pc[c] = "h_report_content"
    /\ TrySend(c, Stream("report_content", <<session[c].final_report>>),
               IF report_path[c] # NoPath THEN "h_report_saved" ELSE "h_stream_end")
    /\ UNCHANGED <<ws, inbox, nsent, data, active_sessions, query, report_path,
                   filepath, outstanding, engine, asstRows, dbVars, cbVars>>
    /\ UNCHANGED rest

\* line 354
SendReportSaved(c) ==
    /\ pc[c] = "h_report_saved"
    /\ TrySend(c, Stream("report_saved", <<"Report saved to: ">> \o report_path[c]),
               "h_stream_end")
    /\ UNCHANGED <<ws, inbox, nsent, data, active_sessions, query, report_path,
                   filepath, outstanding, engine, asstRows, dbVars, cbVars>>
    /\ UNCHANGED rest

\* lines 357-369: stream_end, then the assistant message is saved
SendStreamEnd(c) ==
    /\ pc[c] = "h_stream_end"
    /\ IF ws[c] = "open"
         THEN /\ Sent(c, StreamEnd)
              /\ \E ok \in BOOLEAN, t \in Clock :
                   /\ now' = t
                   /\ IF ok
                     THEN /\ messages' = save_message(messages, Uuid(nextUuid),
                                 session[c].chat_id, "assistant",
                                 <<"Research process completed. Final report:",
                                   session[c].final_report>>,
                                 t, report_path[c])
                          /\ chats' = touch_chat(chats, session[c].chat_id, t)
                          /\ asstRows' = [asstRows EXCEPT ![c] = @ + 1]
                          /\ pc' = [pc EXCEPT ![c] = "h_completed"]
                          /\ UNCHANGED <<exc, session>>
                     ELSE /\ Except(c, "OperationalError")
                          /\ UNCHANGED <<messages, chats, asstRows>>
              /\ nextUuid' = nextUuid + 1
         ELSE /\ Except(c, "WebSocketDisconnect")
              /\ UNCHANGED <<wire, messages, chats, asstRows, nextUuid, now>>
    /\ UNCHANGED <<ws, inbox, nsent, data, active_sessions, query, report_path,
                   filepath, outstanding, engine, files, cbVars>>
    /\ UNCHANGED rest

\* lines 372-379: research_completed, then handle_research_message returns
SendCompleted(c) ==
    /\ pc[c] = "h_completed"
    /\ IF ws[c] = "open"
         THEN /\ Sent(c, CompletedEvent(session[c].final_report, report_path[c]))
              /\ pc' = [pc EXCEPT ![c] = "recv"]
              /\ outstanding' = [outstanding EXCEPT ![c] = @ - 1]
              /\ UNCHANGED <<exc, session>>
         ELSE /\ Except(c, "WebSocketDisconnect")
              /\ UNCHANGED <<wire, outstanding>>
    /\ UNCHANGED <<ws, inbox, nsent, data, active_sessions, query, report_path,
                   filepath, engine, asstRows, dbVars, cbVars>>
    /\ UNCHANGED rest

\* line 385, in the except clause
SendError(c) ==
    /\ pc[c] = "x_err"
    /\ PlainSend(c, Stream("error", <<"Error: ", exc[c]>>), "x_stream_end")
    /\ UNCHANGED <<ws, inbox, nsent, data, session, query, report_path,
                   filepath, engine, asstRows, dbVars, cbVars>>
    /\ UNCHANGED rest

\* lines 388-394: stream_end, then the error message is saved and
\* handle_research_message returns
SendErrorStreamEnd(c) ==
    /\ pc[c] = "x_stream_end"
    /\ IF ws[c] = "open"
         THEN /\ Sent(c, StreamEnd)
              /\ \E ok \in BOOLEAN, t \in Clock :
                   /\ now' = t
                   /\ IF ok
                     THEN /\ messages' = save_message(messages, Uuid(nextUuid),
                                 session[c].chat_id, "assistant",
                                 <<"Error during research: ", exc[c]>>, t, NoPath)
                          /\ chats' = touch_chat(chats, session[c].chat_id, t)
                          /\ asstRows' = [asstRows EXCEPT ![c] = @ + 1]
                          /\ pc' = [pc EXCEPT ![c] = "recv"]
                          /\ UNCHANGED <<exc, active_sessions>>
                     ELSE /\ Raise(c, "OperationalError")
                          /\ UNCHANGED <<messages, chats, asstRows>>
              /\ nextUuid' = nextUuid + 1
              /\ outstanding' = [outstanding EXCEPT ![c] = @ - 1]
         ELSE /\ Raise(c, "WebSocketDisconnect")
              /\ outstanding' = [outstanding EXCEPT ![c] = @ - 1]
              /\ UNCHANGED <<wire, messages, chats, asstRows, nextUuid, now>>
    /\ UNCHANGED <<ws, inbox, nsent, data, session, query, report_path,
                   filepath, engine, files, cbVars>>
    /\ UNCHANGED rest

\* ------------------------------------------------ the store and its REST API
\* datetime.now() is the local wall clock: a read can return less than the
\* read before it (the clock is set back, or daylight saving time ends)
WallClock == 0..MaxStamp

\* the chat ids of the store specification
AllChatIds == ClientChatIds \cup {Uuid(n) : n \in 1..MaxRows}

\* the chat ids the store is called with: those a client names, and the
\* uuids drawn so far
StoreChatIds == ClientChatIds \cup {Uuid(n) : n \in 1..(nextUuid - 1)}

\* create_chat, lines 423-429
CreateChat ==
    /\ nextUuid <= MaxRows
    /\ \E t \in WallClock, title \in {<<"New Research">>} :
         /\ now' = t
         /\ chats' = save_chat(chats, Uuid(nextUuid), title, t)
         /\ rest' = [op |-> "create_chat", arg |-> <<Uuid(nextUuid)>>, status |-> 200,
                     rows |-> << >>, text |-> title]
    /\ nextUuid' = nextUuid + 1
    /\ UNCHANGED <<netVars, hdlVars, messages, files, cbVars>>

\* save_message, lines 214-236, as handle_research_message calls it at line
\* 296 with the chat id its session is bound to
SaveUserMessage(id) ==
    /\ id \in StoreChatIds
    /\ nextUuid <= MaxRows
    /\ \E t \in WallClock :
         /\ now' = t
         /\ messages' = save_message(messages, Uuid(nextUuid), id, "user",
                                     <<"q">>, t, NoPath)
         /\ chats' = touch_chat(chats, id, t)
    /\ nextUuid' = nextUuid + 1
    /\ UNCHANGED <<netVars, hdlVars, files, cbVars, rest>>

\* delete_chat, lines 409-421: the two DELETE statements of one transaction
DeleteChat(id) ==
    /\ id \in StoreChatIds
    /\ messages' = SelectSeq(messages, LAMBDA m : m.chat_id # id)
    /\ chats' = [k \in DOMAIN chats \ {id} |-> chats[k]]
    /\ rest' = [op |-> "delete_chat", arg |-> <<id>>, status |-> 200,
                rows |-> << >>, text |-> <<"deleted">>]
    /\ UNCHANGED <<netVars, hdlVars, files, nextUuid, now, cbVars>>

\* ORDER BY timestamp: a row goes behind the rows whose timestamp is not
\* greater than its own (SQLite emits rows of equal key in rowid order)
InsertByTimestamp(sorted, r) ==
    LET k == Cardinality({i \in DOMAIN sorted : sorted[i].timestamp <= r.timestamp})
    IN SubSeq(sorted, 1, k) \o <<r>> \o SubSeq(sorted, k + 1, Len(sorted))

RECURSIVE OrderByTimestamp(_)
OrderByTimestamp(rows) ==
    IF rows = << >> THEN << >>
    ELSE InsertByTimestamp(OrderByTimestamp(SubSeq(rows, 1, Len(rows) - 1)),
                           rows[Len(rows)])

\* get_messages, lines 250-263
get_messages(id) ==
    OrderByTimestamp(SelectSeq(messages, LAMBDA m : m.chat_id = id))

\* get_chat_messages, lines 403-407
GetMessages(id) ==
    /\ id \in StoreChatIds
    /\ rest' = [op |-> "get_messages", arg |-> <<id>>, status |-> 200,
                rows |-> get_messages(id), text |-> << >>]
    /\ UNCHANGED <<netVars, hdlVars, dbVars, cbVars>>

\* The transcript store under its callers: chats are created, user rows are
\* appended, chats are deleted and the rows of a chat are listed.
NextStore ==
    \/ CreateChat
    \/ \E id \in AllChatIds : SaveUserMessage(id)
    \/ \E id \in AllChatIds : DeleteChat(id)
    \/ \E id \in AllChatIds : GetMessages(id)

SpecStore == Init /\ [][NextStore]_vars

\* the file names save_report can form for the first chats
AllReportNames ==
    {<<id, t>> : id \in ClientChatIds \cup {Uuid(n) : n \in 1..MaxFrames},
                 t \in 0..MaxTime}

\* the file names a reader asks for: the reports on disk and those an
\* invocation is about to write
ReportNames == DOMAIN files \cup ({filepath[c] : c \in Conns} \ {NoPath})

\* get_report, lines 489-495, served to a client: FileResponse sends the
\* bytes the file holds when it is read
GetReport(fn) ==
    /\ fn \in ReportNames
    /\ rest' = [op |-> "get_report", arg |-> fn,
                status |-> IF fn \in DOMAIN files THEN 200 ELSE 404,
                rows |-> << >>, text |-> get_report(fn)]
    /\ UNCHANGED <<netVars, hdlVars, dbVars, cbVars>>

\* ------------------------------------------------------------------- Next
Next ==
    \E c \in Solo :
         \/ Accept(c)
         \/ ClientSend(c)
         \/ Disconnect(c)
         \/ ReceiveDisconnect(c)
         \/ ReceiveMalformed(c)
         \/ ReceiveSelectChat(c)
         \/ SendSelectState(c)
         \/ ReceiveOther(c)
         \/ ReceiveEmptyMessage(c)
         \/ SendPrompt(c)
         \/ WsClose(c)
         \/ ReceiveQuery(c)
         \/ SendResearchState(c)
         \/ SendResearchStarted(c)
         \/ SendStreamStart(c)
         \/ SendHeader(c)
         \/ SendInfo(c)
         \/ EngineReturn(c)
         \/ EngineRaise(c)
         \/ OpenReport(c)
         \/ WriteReport(c)
         \/ CloseReport(c)
         \/ SendReportHeader(c)
         \/ SendReportContent(c)
         \/ SendReportSaved(c)
         \/ SendStreamEnd(c)
         \/ SendCompleted(c)
         \/ SendError(c)
         \/ SendErrorStreamEnd(c)

Spec == Init /\ [][Next]_vars

\* The engine phase of one invocation: a client that sends one query, the
\* handler up to the engine call, the callbacks the engine delivers from its
\* concurrent work units, and the engine's outcome.
ClientQuery(c) ==
    /\ ws[c] = "open"
    /\ nsent[c] = 0
    /\ inbox' = [inbox EXCEPT ![c] = Append(@, UserMessage(<<" ", "q">>, None))]
    /\ nsent' = [nsent EXCEPT ![c] = @ + 1]
    /\ UNCHANGED <<ws, wire, hdlVars, dbVars, cbVars>>
    /\ UNCHANGED rest

NextCb ==
    \E c \in Solo :
         \/ Accept(c)
         \/ ClientQuery(c)
         \/ Disconnect(c)
         \/ ReceiveDisconnect(c)
         \/ ReceiveQuery(c)
         \/ SendResearchState(c)
         \/ SendResearchStarted(c)
         \/ SendStreamStart(c)
         \/ SendHeader(c)
         \/ SendInfo(c)
         \/ \E u \in Units : CallbackArrive(c, u)
         \/ \E u \in Units : CallbackResume(c, u)
         \/ EngineReturn(c)
         \/ EngineRaise(c)

SpecCb == Init /\ [][NextCb]_vars

\* One invocation and a reader: a client that sends one query, the handler
\* through save_report to the end of the invocation, and a second client
\* that downloads reports while the handler is suspended.
NextReader ==
    \/ \E c \in Solo :
         \/ Accept(c)
         \/ ClientQuery(c)
         \/ Disconnect(c)
         \/ ReceiveDisconnect(c)
         \/ ReceiveQuery(c)
         \/ SendResearchState(c)
         \/ SendResearchStarted(c)
         \/ SendStreamStart(c)
         \/ SendHeader(c)
         \/ SendInfo(c)
         \/ EngineReturn(c)
         \/ EngineRaise(c)
         \/ OpenReport(c)
         \/ WriteReport(c)
         \/ CloseReport(c)
         \/ SendReportHeader(c)
         \/ SendReportContent(c)
         \/ SendReportSaved(c)
         \/ SendStreamEnd(c)
         \/ SendCompleted(c)
         \/ SendError(c)
         \/ SendErrorStreamEnd(c)
         \/ WsClose(c)
    \/ \E fn \in AllReportNames : GetReport(fn)

SpecReader == Init /\ [][NextReader]_vars

\* the texts of the title specification: a blank, then 1..MaxQuery characters
\* that differ from position to position
LongTexts ==
    {<<" ">> \o [i \in 1..n |-> ToString(i + o)] : n \in 1..MaxQuery, o \in {0, 1}}

\* a client sends its one query, with no chat_id
ClientLongQuery(c) ==
    /\ ws[c] = "open"
    /\ nsent[c] = 0
    /\ \E t \in LongTexts :
         inbox' = [inbox EXCEPT ![c] = Append(@, UserMessage(t, None))]
    /\ nsent' = [nsent EXCEPT ![c] = @ + 1]
    /\ UNCHANGED <<ws, wire, hdlVars, dbVars, cbVars>>
    /\ UNCHANGED rest

\* The first query of a connection: the chat is created under the title
\* derived from the query.
NextTitle ==
    \E c \in Solo :
         \/ Accept(c)
         \/ ClientLongQuery(c)
         \/ ReceiveQuery(c)

SpecTitle == Init /\ [][NextTitle]_vars

\* a client sends its one query for the chat "a" (line 465)
ClientQueryChat(c) ==
    /\ ws[c] = "open"
    /\ nsent[c] = 0
    /\ inbox' = [inbox EXCEPT ![c] = Append(@, UserMessage(<<" ", "q">>, "a"))]
    /\ nsent' = [nsent EXCEPT ![c] = @ + 1]
    /\ UNCHANGED <<ws, wire, hdlVars, dbVars, cbVars>>
    /\ UNCHANGED rest

\* Two connections on one chat: each client sends one query for the chat "a"
\* and stays connected; the two handlers run interleaved at their awaits.
\* An invocation that fails is not followed further.
NextShared ==
    \E c \in Conns :
         \/ Accept(c)
         \/ ClientQueryChat(c)
         \/ ReceiveQuery(c)
         \/ SendResearchState(c)
         \/ SendResearchStarted(c)
         \/ SendStreamStart(c)
         \/ SendHeader(c)
         \/ SendInfo(c)
         \/ EngineReturn(c)
         \/ OpenReport(c)
         \/ WriteReport(c)
         \/ CloseReport(c)
         \/ SendReportHeader(c)
         \/ SendReportContent(c)
         \/ SendReportSaved(c)
         \/ SendStreamEnd(c)
         \/ SendCompleted(c)

SpecShared == Init /\ [][NextShared]_vars

\* line 113: deque(maxlen=1000)
Capacity == 1000

\* the callbacks of an LLM run
LlmCallbacks == {"on_llm_start", "on_llm_new_token", "on_llm_end"}

\* a callback of the one LLM run of the engine arrives
LlmCallbackArrive(c, u) ==
    /\ pc[c] = "h_engine"
    /\ calls[c][u].cb.kind = None
    /\ arrived[c] <= MaxTokens
    /\ \E cb \in Callbacks(calls[c][u].phase) :
         /\ cb.kind \in LlmCallbacks
         /\ cb.kind = "on_llm_start" => arrived[c] = 0
         /\ Deliver(c, u, cb)
    /\ UNCHANGED <<ws, inbox, nsent, hdlVars, dbVars>>
    /\ UNCHANGED rest

\* The token stream of one invocation: a client that sends one query and
\* stays connected, the handler up to the engine call, and an engine whose
\* one LLM run streams its tokens.
NextTokens ==
    \E c \in Solo :
         \/ Accept(c)
         \/ ClientQuery(c)
         \/ ReceiveQuery(c)
         \/ SendResearchState(c)
         \/ SendResearchStarted(c)
         \/ SendStreamStart(c)
         \/ SendHeader(c)
         \/ SendInfo(c)
         \/ LlmCallbackArrive(c, "A")
         \/ CallbackResume(c, "A")

SpecTokens == Init /\ [][NextTokens]_vars

\* a tool output of n characters that differ from position to position
Output(n) == [i \in 1..n |-> ToString(i)]

\* the ends of a tool run of the tool specification
ToolEnds == {[kind |-> "on_tool_end", arg |-> Output(n)] : n \in 0..MaxOutput}

\* a callback of the one tool run of the engine arrives
ToolCallbackArrive(c, u) ==
    /\ pc[c] = "h_engine"
    /\ calls[c][u].cb.kind = None
    /\ \E cb \in (IF calls[c][u].phase = "tool"
                   THEN ToolEnds
                   ELSE {[kind |-> "on_tool_start", arg |-> t] : t \in Tools}) :
         /\ cb.kind = "on_tool_start" => arrived[c] = 0
         /\ Deliver(c, u, cb)
    /\ UNCHANGED <<ws, inbox, nsent, hdlVars, dbVars>>
    /\ UNCHANGED rest

\* The tool run of one invocation: a client that sends one query and stays
\* connected, the handler up to the engine call, and an engine whose one
\* tool run ends with an output of any length up to MaxOutput.
NextTool ==
    \E c \in Solo :
         \/ Accept(c)
         \/ ClientQuery(c)
         \/ ReceiveQuery(c)
         \/ SendResearchState(c)
         \/ SendResearchStarted(c)
         \/ SendStreamStart(c)
         \/ SendHeader(c)
         \/ SendInfo(c)
         \/ ToolCallbackArrive(c, "A")
         \/ CallbackResume(c, "A")

SpecTool == Init /\ [][NextTool]_vars



\* ================================================================= claims
Last(q) == q[Len(q)]

IsCompleted(f) ==
    IF f.type = "event" THEN f.event = "research_completed" ELSE FALSE

IsStream(f, mt) ==
    IF f.type = "stream" THEN f.message_type = mt ELSE FALSE

\* the file name get_report is asked for, given the path save_report returned
FileName(path) == Tail(path)

\* C1: on one connection at most one handle_research_message call is
\* outstanding at any instant, and is_researching goes from false to true
\* only when none is outstanding.
C1_SingleInvocation ==
    [][\A c \in Conns :
         /\ outstanding'[c] <= 1
         /\ (~session[c].is_researching /\ session'[c].is_researching)
              => outstanding[c] = 0]_vars

\* a second user message has arrived while the invocation is outstanding
C1_Witness ==
    \E c \in Conns :
      /\ outstanding[c] = 1
      /\ inbox[c] # << >>
      /\ Head(inbox[c]).type = "message"
      /\ pc[c] = "h_engine"

\* C2: every invocation whose engine call returned or raised, once it has
\* ended, has appended exactly one assistant row.
C2_ExactlyOneAssistantRow ==
    \A c \in Conns :
      (engine[c] # None /\ outstanding[c] = 0) => asstRows[c] = 1

\* C3: the report_path of every research_completed event resolves through
\* get_report to exactly the report body the event delivered.
C3_PathResolvesToBody ==
    \A c \in Conns : \A i \in DOMAIN wire[c] :
      IsCompleted(wire[c][i]) =>
        get_report(FileName(wire[c][i].report_path)) = <<wire[c][i].report>>

\* C4: the callback frames of an invocation are on the wire in the order in
\* which their callbacks arrived.
C4_WireInArrivalOrder ==
    \A c \in Conns : \A i, j \in DOMAIN order[c] :
      i < j => order[c][i] <= order[c][j]

\* C5: a handler that waits for the next frame, its session registered, has
\* is_researching false.
C5_IdleAtReceive ==
    \A c \in Conns :
      (pc[c] = "recv" /\ c \in active_sessions) => ~session[c].is_researching

\* the handler is back at receive after an invocation whose engine raised
C5_Witness ==
    \E c \in Conns :
      /\ pc[c] = "recv"
      /\ c \in active_sessions
      /\ engine[c] = "raised"
      /\ asstRows[c] = 1


\* the frames sent since the last stream_start, that is, in the last invocation
InvocationFrames(c) ==
    LET starts == {i \in DOMAIN wire[c] : wire[c][i].type = "stream_start"} IN
      IF starts = {} THEN << >>
      ELSE LET k == CHOOSE i \in starts : \A j \in starts : j <= i
           IN SubSeq(wire[c], k, Len(wire[c]))

\* the step in which the handler of c takes the frame at the head of its inbox
Takes(c) ==
    /\ pc[c] = "recv"
    /\ inbox[c] # << >>
    /\ inbox'[c] = Tail(inbox[c])

\* C6: an engine failure is answered with an error event and ends the
\* invocation only: is_researching is reset, the handler is never ended by
\* the engine's exception, the session stays registered, the server does not
\* close the connection, and the handler returns to receive.
C6_EngineFailureNotFatal ==
    \A c \in Conns :
      engine[c] = "raised" =>
        /\ ~session[c].is_researching
        /\ pc[c] \in {"ws_close", "done"} => exc[c] # "EngineError"
        /\ pc[c] \notin {"ws_close", "done"} =>
             (c \in active_sessions /\ ws[c] # "server_closed")
        /\ pc[c] \notin {"x_err", "ws_close", "done"} =>
             \E i \in DOMAIN InvocationFrames(c) :
               /\ IsStream(InvocationFrames(c)[i], "error")
               /\ InvocationFrames(c)[i].content = <<"Error: ", "EngineError">>
        /\ pc[c] = "recv" => (outstanding[c] = 0 /\ asstRows[c] = 1)

\* after an invocation whose engine raised, the same connection runs a new one
C6_Witness ==
    \E c \in Conns :
      /\ outstanding[c] = 1
      /\ pc[c] = "h_engine"
      /\ c \in active_sessions
      /\ ws[c] = "open"
      /\ \E i \in DOMAIN messages :
           /\ messages[i].role = "assistant"
           /\ messages[i].content = <<"Error during research: ", "EngineError">>

DecodeErrors == {"JSONDecodeError", "AttributeError"}

\* C7: a malformed frame or a frame of an unrecognized type is answered with
\* an error event, and the handler goes on to the next frame.
C7_DecodeErrorReported ==
    \A c \in Conns :
      /\ exc[c] \in DecodeErrors =>
           /\ pc[c] \notin {"ws_close", "done"}
           /\ wire[c] # << >>
           /\ IsStream(Last(wire[c]), "error")
      /\ (pc[c] = "recv" /\ data[c].type = "ping") =>
           /\ wire[c] # << >>
           /\ IsStream(Last(wire[c]), "error")

StoreErrors == {"OSError", "OperationalError"}

\* C8: when the engine has returned a report and save_report or the
\* assistant save_message then fails, the client, still connected when the
\* invocation ends, has been sent the report body.
C8_ReportDeliveredDespiteStoreFailure ==
    \A c \in Conns :
      (engine[c] = "returned" /\ exc[c] \in StoreErrors /\ pc[c] = "recv") =>
        \E i \in DOMAIN InvocationFrames(c) :
          /\ IsStream(InvocationFrames(c)[i], "report_content")
          /\ InvocationFrames(c)[i].content = <<session[c].final_report>>

\* a user message whose text is blank
BlankMessage(f) ==
    /\ f.json = "object"
    /\ f.type = "message" /\ f.sender = "user"
    /\ \A i \in DOMAIN f.text : f.text[i] = " "

\* C9: a user message with blank text starts no invocation and leaves
\* is_researching false; its one reply is the fixed prompt.
C9_EmptyMessagePrompts ==
    [][\A c \in Conns :
         /\ (Takes(c) /\ BlankMessage(Head(inbox[c]))) =>
              /\ pc'[c] = "prompt"
              /\ wire'[c] = wire[c]
              /\ ~session'[c].is_researching
              /\ outstanding'[c] = 0
         /\ (pc[c] = "prompt" /\ pc'[c] # "prompt") =>
              /\ ~session'[c].is_researching
              /\ outstanding'[c] = 0
              /\ IF ws[c] = "open"
                   THEN /\ pc'[c] = "recv"
                        /\ Len(wire'[c]) = Len(wire[c]) + 1
                        /\ SubSeq(wire'[c], 1, Len(wire[c])) = wire[c]
                        /\ Last(wire'[c]).type = "message"
                        /\ Last(wire'[c]) = Prompt
                   ELSE wire'[c] = wire[c]]_vars

\* a blank message has been answered with the prompt
C9_Witness ==
    \E c \in Conns :
      /\ pc[c] = "recv"
      /\ data[c].type = "message"
      /\ data[c].text = <<" ">>
      /\ wire[c] # << >>
      /\ Last(wire[c]).type = "message"
      /\ ~session[c].is_researching

IsQuery(f) ==
    /\ f.json = "object"
    /\ f.type = "message" /\ f.sender = "user"
    /\ ~BlankMessage(f)

\* C11: when the handler takes a query and neither the frame nor the session
\* carries a chat_id, a chat row is created under a new id and bound to the
\* session, and the user row is appended only with that chat row in place
\* (the chat row is not younger than the user row); when a chat_id is bound,
\* the step creates no chat row and the user row goes to the bound id.
C11_ChatCreatedBeforeUserRow ==
    [][\A c \in Conns :
         (Takes(c) /\ IsQuery(Head(inbox[c]))) =>
           LET f == Head(inbox[c])
               bound == IF f.chat_id # None THEN f.chat_id ELSE session[c].chat_id
               id == session'[c].chat_id
           IN
             /\ Len(messages') \in {Len(messages), Len(messages) + 1}
             /\ pc'[c] = "h_state" => Len(messages') = Len(messages) + 1
             /\ IF bound = None
                  THEN /\ id \notin DOMAIN chats
                       /\ DOMAIN chats' \in {DOMAIN chats, DOMAIN chats \cup {id}}
                       /\ id \in DOMAIN chats' =>
                            chats'[id].title = Title(Strip(f.text))
                       /\ Len(messages') > Len(messages) =>
                            /\ id \in DOMAIN chats'
                            /\ Last(messages').chat_id = id
                            /\ Last(messages').role = "user"
                            /\ chats'[id].created_at <= Last(messages').timestamp
                  ELSE /\ DOMAIN chats' = DOMAIN chats
                       /\ id = bound
                       /\ Len(messages') > Len(messages) =>
                            /\ Last(messages').chat_id = bound
                            /\ Last(messages').role = "user"]_vars

\* a session with no chat bound has created its chat and appended the user
\* row, and a later query of the same session has reused that chat
C11_Witness ==
    \E c \in Conns :
      /\ pc[c] = "h_state"
      /\ session[c].chat_id \in DOMAIN chats
      /\ session[c].chat_id \notin ClientChatIds
      /\ Cardinality(DOMAIN chats) = 1
      /\ Cardinality({i \in DOMAIN messages :
                        messages[i].role = "user"
                        /\ messages[i].chat_id = session[c].chat_id}) = 2

\* C12: every message row's chat_id is the id of a chat row; an append to an
\* absent chat adds no row.
C12_MessagesReferenceChats ==
    \A i \in DOMAIN messages : messages[i].chat_id \in DOMAIN chats

\* the step in which DELETE /api/chats/{id} is served
DeleteServed ==
    /\ rest'.op = "delete_chat"
    /\ \/ rest' # rest
       \/ Len(messages') < Len(messages)
       \/ DOMAIN chats' # DOMAIN chats

\* C13: delete_chat answers success; for an id with no chat row it leaves
\* the chat rows and the message rows as they are, and for an existing chat
\* it removes that chat row and that chat's message rows and nothing else.
C13_DeleteIdempotent ==
    [][DeleteServed =>
         LET id == rest'.arg[1] IN
           /\ rest'.status = 200
           /\ IF id \in DOMAIN chats
                THEN /\ DOMAIN chats' = DOMAIN chats \ {id}
                     /\ \A k \in DOMAIN chats' : chats'[k] = chats[k]
                     /\ messages' = SelectSeq(messages, LAMBDA m : m.chat_id # id)
                ELSE /\ chats' = chats
                     /\ messages' = messages]_vars

\* the step in which GET /api/chats/{id}/messages is served
ListServed == rest'.op = "get_messages" /\ rest' # rest

\* C14: get_messages returns the rows of the chat with non-decreasing
\* timestamps and in the order in which they were appended.
C14_ListInAppendOrder ==
    [][ListServed =>
         LET rows == rest'.rows IN
           /\ \A i, j \in DOMAIN rows :
                i < j => rows[i].timestamp <= rows[j].timestamp
           /\ rows = SelectSeq(messages, LAMBDA m : m.chat_id = rest'.arg[1])]_vars

\* C15: the buffer the token callbacks append to never holds more than the
\* capacity of the session's token buffer.
C15_TokenBufferBounded ==
    \A c \in Conns : Len(buffer[c]) <= Capacity

\* the current invocation of c has emitted stream_end
EndEmitted(c) ==
    \E i \in DOMAIN InvocationFrames(c) : InvocationFrames(c)[i].type = "stream_end"

\* the current invocation of c has emitted research_completed
CompletedEmitted(c) ==
    \E i \in DOMAIN InvocationFrames(c) : IsCompleted(InvocationFrames(c)[i])

\* C16: in an invocation whose engine returned and in which nothing failed,
\* the report is persisted only after stream_end was emitted, the assistant
\* row that references the report path is appended only after the report
\* was persisted, and research_completed, carrying the report body and the
\* path, is emitted only after that row was appended.
C16_CompletionOrder ==
    \A c \in Conns :
      (engine[c] = "returned" /\ exc[c] = None) =>
        /\ report_path[c] # NoPath => EndEmitted(c)
        /\ asstRows[c] > 0 =>
             /\ report_path[c] # NoPath
             /\ Last(messages).role = "assistant"
             /\ Last(messages).report_path = report_path[c]
        /\ CompletedEmitted(c) =>
             /\ asstRows[c] > 0
             /\ \A i \in DOMAIN InvocationFrames(c) :
                  IsCompleted(InvocationFrames(c)[i]) =>
                    InvocationFrames(c)[i] =
                      CompletedEvent(session[c].final_report, report_path[c])

\* an artifact that holds the header and, behind it, a report body
CompleteArtifact(text) ==
    /\ text # << >>
    /\ Head(text) = "# Research Report"
    /\ Last(text) \in Reports

\* C17: a reader of a report file gets no file or the complete artifact,
\* header and body, never a part of it.
C17_NoPartialArtifact ==
    rest.op = "get_report" =>
      \/ (rest.status = 404 /\ rest.text = NotFound)
      \/ (rest.status = 200 /\ CompleteArtifact(rest.text))

\* C18: an artifact that save_report has written is never changed or
\* replaced afterwards, and no two assistant rows carry the same report path.
C18_WriteOnce ==
    [][/\ \A fn \in DOMAIN files :
            CompleteArtifact(files[fn]) =>
              (fn \in DOMAIN files' /\ files'[fn] = files[fn])
       /\ \A i, j \in DOMAIN messages' :
            (i < j /\ messages'[i].report_path # NoPath) =>
              messages'[j].report_path # messages'[i].report_path]_vars

\* C19: active_sessions holds a connection exactly from its accept to the
\* end of its handler, whatever ended the handler.
C19_RegistryHoldsLiveConnections ==
    \A c \in Conns : c \in active_sessions <=> pc[c] \notin {"accept", "done"}

\* a handler has ended through a websocket.close() that raised, after an
\* exception raised while it handled a frame
C19_Witness ==
    \E c \in Conns :
      /\ pc[c] = "done"
      /\ exc[c] = "RuntimeError"
      /\ ws[c] = "peer_closed"
      /\ c \notin active_sessions
      /\ data[c].type = "message"

\* the awaits of handle_research_message that send a frame after the
\* invocation has sent its stream_start: a connection found closed there
\* has closed while the invocation was in flight
InvocationSends ==
    {"h_header", "h_info", "h_report_header", "h_report_content",
     "h_report_saved", "h_stream_end", "h_completed", "x_err", "x_stream_end"}

\* C20: a send of a research invocation on a connection that has closed is
\* suppressed: it writes no frame to the connection and raises nothing into
\* the invocation, neither into its try block nor out of its except branch.
C20_SendsSuppressedAfterClose ==
    [][\A c \in Conns :
         (ws[c] # "open" /\ pc[c] \in InvocationSends /\ pc'[c] # pc[c]) =>
           /\ wire'[c] = wire[c]
           /\ ~(exc'[c] = "WebSocketDisconnect" /\ pc'[c] \in {"x_err", "done"})]_vars

\* C21: on a connection that stays open, a query is answered first with a
\* state frame whose is_researching is true, and an invocation whose engine
\* call returned has, when it ends, emitted research_completed with the
\* report and its report_path.
C21_StateFirstCompletedLast ==
    [][\A c \in Conns :
         /\ (Takes(c) /\ IsQuery(Head(inbox[c]))) => wire'[c] = wire[c]
         /\ (pc[c] = "h_state" /\ pc'[c] # "h_state" /\ ws[c] = "open") =>
              wire'[c] = Append(wire[c],
                                StateFrame(session[c].chat_id, TRUE,
                                           "Starting research..."))
         /\ (engine[c] = "returned" /\ outstanding[c] = 1
               /\ outstanding'[c] = 0 /\ ws'[c] = "open") =>
              \E i \in DOMAIN wire'[c] :
                /\ i > Len(wire'[c]) - Len(InvocationFrames(c)')
                /\ IsCompleted(wire'[c][i])
                /\ wire'[c][i].report = session'[c].final_report
                /\ wire'[c][i].report_path = report_path'[c]
                /\ report_path'[c] # NoPath]_vars

\* C22: the title of a chat created for a query is the query when the query
\* has at most 50 characters, and otherwise the first 50 characters of the
\* query followed by "...".
C22_TitleDerivation ==
    [][\A c \in Conns : \A id \in DOMAIN chats' \ DOMAIN chats :
         session'[c].chat_id = id =>
           LET q == query'[c]
               t == chats'[id].title
           IN IF Len(q) <= 50
                THEN t = q
                ELSE /\ Len(t) = 53
                     /\ \A i \in 1..50 : t[i] = q[i]
                     /\ \A i \in 51..53 : t[i] = "."]_vars

\* a chat has been created for a query of more than 50 characters and is
\* titled with 53 characters
C22_Witness ==
    \E c \in Conns :
      /\ session[c].chat_id \in DOMAIN chats
      /\ Len(query[c]) > 50
      /\ Len(chats[session[c].chat_id].title) = 53

\* the number of truncation markers in a rendered tool output
Markers(r) == Cardinality({i \in DOMAIN r : r[i] = "\n... (truncated)"})

\* C23: a tool output of more than 1000 characters is rendered as its first
\* 1000 characters followed by one truncation marker, and a tool output of
\* at most 1000 characters is rendered unchanged (both inside the code fence).
C23_ToolOutputTruncation ==
    [][\A c \in Conns :
         (Len(wire'[c]) = Len(wire[c]) + 1 /\ IsStream(Last(wire'[c]), "tool_output")) =>
           \E u \in Units :
             /\ calls[c][u].cb.kind = "on_tool_end"
             /\ calls[c][u].todo # << >>
             /\ LET out == calls[c][u].cb.arg
                    r == Last(wire'[c]).content
                IN IF Len(out) <= 1000
                     THEN /\ Len(r) = Len(out) + 2
                          /\ \A i \in 1..Len(out) : r[i + 1] = out[i]
                          /\ Markers(r) = 0
                     ELSE /\ Len(r) = 1003
                          /\ \A i \in 1..1000 : r[i + 1] = out[i]
                          /\ r[1002] = "\n... (truncated)"
                          /\ Markers(r) = 1]_vars

\* a tool output of more than 1000 characters has been rendered and sent
C23_Witness ==
    \E c \in Conns : \E u \in Units :
      /\ calls[c][u].cb.kind = "on_tool_end"
      /\ Len(calls[c][u].cb.arg) > 1000
      /\ calls[c][u].todo = << >>
      /\ IsStream(Last(wire[c]), "tool_output")

\* C24: a query that arrives while the connection's invocation is running
\* stays unread in arrival order until the invocation ends, and when the
\* invocation ends on an open connection the handler is back at receive
\* with the query still at the head of its inbox, to execute it next.
C24_QueuedQueryRunsNext ==
    [][\A c \in Conns :
         /\ outstanding[c] = 1 =>
              /\ Len(inbox'[c]) >= Len(inbox[c])
              /\ SubSeq(inbox'[c], 1, Len(inbox[c])) = inbox[c]
         /\ (outstanding[c] = 1 /\ outstanding'[c] = 0 /\ ws'[c] = "open"
               /\ inbox[c] # << >> /\ IsQuery(Head(inbox[c]))) =>
              pc'[c] = "recv"]_vars

\* the number of stream_end frames among the frames fs
StreamEnds(fs) == Cardinality({i \in DOMAIN fs : fs[i].type = "stream_end"})

\* C25: the client receives one stream_start and one stream_end per
\* invocation: every stream or token frame follows a stream_start, no
\* invocation emits a second stream_end, and an invocation that returns to
\* receive has emitted exactly one.
C25_OneStreamStartOneStreamEnd ==
    [][\A c \in Conns :
         /\ StreamEnds(InvocationFrames(c)') <= 1
         /\ \A i \in DOMAIN wire'[c] :
              wire'[c][i].type \in {"stream", "token"} =>
                \E j \in 1..(i - 1) : wire'[c][j].type = "stream_start"
         /\ (outstanding[c] = 1 /\ outstanding'[c] = 0 /\ pc'[c] = "recv") =>
              StreamEnds(InvocationFrames(c)') = 1]_vars

\* C26: a state frame reports the is_researching value the session has when
\* the frame is sent, and the reply to select_chat, which reports false, is
\* sent only while no invocation is outstanding on the session.
C26_StateFrameReportsSession ==
    [][\A c \in Conns :
         (Len(wire'[c]) = Len(wire[c]) + 1 /\ Last(wire'[c]).type = "state") =>
           /\ Last(wire'[c]).is_researching = session[c].is_researching
           /\ Last(wire'[c]).is_researching = session'[c].is_researching
           /\ pc[c] = "sel_state" =>
                (outstanding[c] = 0 /\ ~Last(wire'[c]).is_researching)]_vars

\* a session has sent the state frame of an invocation and, after the
\* invocation, the reply to a select_chat
C26_Witness ==
    \E c \in Conns : \E i, j \in DOMAIN wire[c] :
      /\ i < j
      /\ wire[c][i].type = "state" /\ wire[c][i].is_researching
      /\ wire[c][j].type = "state" /\ ~wire[c][j].is_researching

\* C27: the header of a tool output, and a tool-error message, names the
\* tool of the run whose callback sends it, also when the runs of several
\* work units interleave.
C27_HeaderNamesOwnTool ==
    [][\A c \in Conns :
         (/\ Len(wire'[c]) = Len(wire[c]) + 1
          /\ \/ IsStream(Last(wire'[c]), "tool_output_header")
             \/ IsStream(Last(wire'[c]), "tool_error")) =>
           \E u \in Units :
             /\ calls[c][u].cb.kind = None
             /\ calls'[c][u].cb.kind \in {"on_tool_end", "on_tool_error"}
             /\ Last(wire'[c]).content[2] = calls[c][u].tool]_vars

====
